---- MODULE Spec2Model ----
(***************************************************************************)
(* The game engine of the 3D gravity four-in-a-row application             *)
(* (src/streamlit_app.py, class GravityFourInARow3D, and the button         *)
(* handlers of main).  The session state of the engine is modelled in      *)
(* full; the rotation of the view (azim, rotation_speed) is read and        *)
(* written by no engine operation and is left out, as are the drawing       *)
(* routines.                                                                *)
(***************************************************************************)
EXTENDS Integers, Sequences, FiniteSets, TLC

VARIABLES
    board,            \* st.session_state.board: 5x5x5 cells, 0 empty, 1 / 2 a player
    heights,          \* st.session_state.heights: 5x5 fill heights
    current_player,   \* st.session_state.current_player
    winner,           \* st.session_state.winner (None until a win)
    game_over,        \* st.session_state.game_over
    move_history,     \* st.session_state.move_history: <<row, col, layer, player>>
    message,          \* st.session_state.message
    message_color,    \* st.session_state.message_color
    move_disabled     \* the disabled flag of the move button on the page shown

vars == <<board, heights, current_player, winner, game_over, move_history,
          message, message_color, move_disabled>>

-----------------------------------------------------------------------------
(* Program constants *)

BoardSize == 5      \* np.zeros((5, 5, 5)), and every "< 5", ">= 5", "== 5"
WinCount == 4       \* if count >= 4
Reach == 3          \* for i in range(1, 4)
None == -1          \* Python's None (winner, and the row/col of a parse error)

Idx == 0 .. (BoardSize - 1)

\* the table without the vertical direction
directions_NoVertical ==
    << <<0, 1, 0>>, <<1, 0, 0>>, <<1, 1, 0>>, <<1, -1, 0>>,
       <<1, 0, 1>>, <<0, 1, 1>>, <<1, 1, 1>>,
       <<1, 0, -1>>, <<0, 1, -1>>, <<1, 1, -1>>,
       <<1, -1, 1>>, <<1, -1, -1>> >>

\* the table with the sign of one component of the last entry slipped, which
\* makes it the opposite of the entry (1, 1, 1)
directions_SignSlip ==
    << <<0, 1, 0>>, <<1, 0, 0>>, <<1, 1, 0>>, <<1, -1, 0>>,
       <<0, 0, 1>>,
       <<1, 0, 1>>, <<0, 1, 1>>, <<1, 1, 1>>,
       <<1, 0, -1>>, <<0, 1, -1>>, <<1, 1, -1>>,
       <<1, -1, 1>>, <<-1, -1, -1>> >>

directions ==
    << <<0, 1, 0>>, <<1, 0, 0>>, <<1, 1, 0>>, <<1, -1, 0>>,
       <<0, 0, 1>>,
       <<1, 0, 1>>, <<0, 1, 1>>, <<1, 1, 1>>,
       <<1, 0, -1>>, <<0, 1, -1>>, <<1, 1, -1>>,
       <<1, -1, 1>>, <<1, -1, -1>> >>

-----------------------------------------------------------------------------
(* Messages.  A message of the program is a formatted string; the model    *)
(* keeps which message it is and the player number formatted into it.      *)

Msg(kind, player) == [kind |-> kind, player |-> player]

\* the engine part of the session state, as one value
State ==
    [board |-> board, heights |-> heights, current_player |-> current_player,
     winner |-> winner, game_over |-> game_over, move_history |-> move_history]

\* reset_game: the values it stores (azim and rotation_speed left out)
reset_game ==
    [board |-> [r \in Idx |-> [c \in Idx |-> [l \in Idx |-> 0]]],
     heights |-> [r \in Idx |-> [c \in Idx |-> 0]],
     current_player |-> 1,
     winner |-> None,
     game_over |-> FALSE,
     move_history |-> <<>>]

reset_message == Msg("NewGame", 1)
reset_message_color == "black"

-----------------------------------------------------------------------------
(* parse_input *)

UpperCase == <<"A", "B", "C", "D", "E", "F">>
LowerCase == <<"a", "b", "c", "d", "e", "f">>
Digits == <<"0", "1", "2", "3", "4", "5", "6", "7", "8", "9">>

InSeq(x, seq) == \E i \in 1 .. Len(seq) : seq[i] = x
IndexOf(x, seq) == CHOOSE i \in 1 .. Len(seq) : seq[i] = x

\* str.upper() on one character
upper(ch) == IF InSeq(ch, LowerCase) THEN UpperCase[IndexOf(ch, LowerCase)] ELSE ch

\* ord(ch) - ord('A') for a capital letter; int(ch) for a digit
ord_minus_A(ch) == IndexOf(ch, UpperCase) - 1
int(ch) == IndexOf(ch, Digits) - 1

\* a text is the sequence of its characters
parse_input(pos_str) ==
    IF pos_str = <<>> THEN [row |-> None, col |-> None, error |-> "EmptyInput"]
    ELSE IF Len(pos_str) # 2 THEN [row |-> None, col |-> None, error |-> "BadFormat"]
    ELSE LET col_char == upper(pos_str[1])
             row_char == pos_str[2]
         IN  IF ~InSeq(col_char, SubSeq(UpperCase, 1, 5))
               THEN [row |-> None, col |-> None, error |-> "BadColumn"]
             ELSE IF ~InSeq(row_char, SubSeq(Digits, 2, 6))
               THEN [row |-> None, col |-> None, error |-> "BadRow"]
             ELSE [row |-> int(row_char) - 1, col |-> ord_minus_A(col_char),
                   error |-> ""]

-----------------------------------------------------------------------------
(* check_win *)

Inside(r, c, l) == r \in Idx /\ c \in Idx /\ l \in Idx

\* One of the two inner loops of check_win from iteration i on: the number of
\* cells it adds to count.  sign is 1 for the forward loop, -1 for the backward.
RECURSIVE Walk(_, _, _, _, _, _, _, _)
Walk(b, player, row, col, layer, d, sign, i) ==
    IF i > Reach THEN 0
    ELSE LET r == row + sign * i * d[1]
             c == col + sign * i * d[2]
             l == layer + sign * i * d[3]
         IN  IF ~Inside(r, c, l) THEN 0
             ELSE IF b[r][c][l] # player THEN 0
             ELSE 1 + Walk(b, player, row, col, layer, d, sign, i + 1)

\* LineCount without the backward loop
LineCount_ForwardOnly(b, row, col, layer, d) ==
    LET player == b[row][col][layer]
    IN  1 + Walk(b, player, row, col, layer, d, 1, 1)

\* count after both loops, for one direction
LineCount(b, row, col, layer, d) ==
    LET player == b[row][col][layer]
    IN  1 + Walk(b, player, row, col, layer, d, 1, 1)
          + Walk(b, player, row, col, layer, d, -1, 1)

\* check_win that asks for more than four
check_win_Strict(b, row, col, layer) ==
    \E k \in 1 .. Len(directions) :
        LineCount(b, row, col, layer, directions[k]) > WinCount

check_win(b, row, col, layer) ==
    \E k \in 1 .. Len(directions) :
        LineCount(b, row, col, layer, directions[k]) >= WinCount

-----------------------------------------------------------------------------
(* make_move *)

\* PlacePiece with the move recorded after the height is incremented
PlacePiece_LateRecord(s, row, col) ==
    LET layer == s.heights[row][col]
    IN  [s EXCEPT !.board[row][col][layer] = s.current_player,
                  !.heights[row][col] = @ + 1,
                  !.move_history =
                      Append(@, <<row, col, layer + 1, s.current_player>>)]

\* "place the piece" and "record the move": lines 178-183
PlacePiece(s, row, col) ==
    LET layer == s.heights[row][col]
    IN  [s EXCEPT !.board[row][col][layer] = s.current_player,
                  !.heights[row][col] = @ + 1,
                  !.move_history = Append(@, <<row, col, layer, s.current_player>>)]

\* np.all(heights == 5)
AllFull(h) == \A r \in Idx : \A c \in Idx : h[r][c] = BoardSize

\* Conclude without the test for a full board
Conclude_NoDraw(p, row, col, layer) ==
    IF check_win(p.board, row, col, layer)
      THEN [success |-> TRUE,
            message |-> Msg("Win", p.current_player),
            state |-> [p EXCEPT !.winner = p.current_player, !.game_over = TRUE]]
    ELSE [success |-> TRUE,
          message |-> Msg("Turn", 3 - p.current_player),
          state |-> [p EXCEPT !.current_player = 3 - p.current_player]]

\* Conclude that switches the player before it looks for a win or a draw
Conclude_ToggleFirst(p, row, col, layer) ==
    LET q == [p EXCEPT !.current_player = 3 - p.current_player]
    IN  IF check_win(p.board, row, col, layer)
          THEN [success |-> TRUE,
                message |-> Msg("Win", p.current_player),
                state |-> [q EXCEPT !.winner = p.current_player, !.game_over = TRUE]]
        ELSE IF AllFull(p.heights)
          THEN [success |-> TRUE,
                message |-> Msg("Draw", 0),
                state |-> [q EXCEPT !.game_over = TRUE]]
        ELSE [success |-> TRUE,
              message |-> Msg("Turn", q.current_player),
              state |-> q]

\* Conclude that looks for a full board before it looks for a win
Conclude_DrawFirst(p, row, col, layer) ==
    IF AllFull(p.heights)
      THEN [success |-> TRUE,
            message |-> Msg("Draw", 0),
            state |-> [p EXCEPT !.game_over = TRUE]]
    ELSE IF check_win(p.board, row, col, layer)
      THEN [success |-> TRUE,
            message |-> Msg("Win", p.current_player),
            state |-> [p EXCEPT !.winner = p.current_player, !.game_over = TRUE]]
    ELSE [success |-> TRUE,
          message |-> Msg("Turn", 3 - p.current_player),
          state |-> [p EXCEPT !.current_player = 3 - p.current_player]]

\* Conclude that records the player who did not move as the winner
Conclude_OtherWinner(p, row, col, layer) ==
    IF check_win(p.board, row, col, layer)
      THEN [success |-> TRUE,
            message |-> Msg("Win", p.current_player),
            state |-> [p EXCEPT !.winner = 3 - p.current_player,
                                !.game_over = TRUE]]
    ELSE IF AllFull(p.heights)
      THEN [success |-> TRUE,
            message |-> Msg("Draw", 0),
            state |-> [p EXCEPT !.game_over = TRUE]]
    ELSE [success |-> TRUE,
          message |-> Msg("Turn", 3 - p.current_player),
          state |-> [p EXCEPT !.current_player = 3 - p.current_player]]

\* Conclude that reports a draw and does not end the game
Conclude_DrawGoesOn(p, row, col, layer) ==
    IF check_win(p.board, row, col, layer)
      THEN [success |-> TRUE,
            message |-> Msg("Win", p.current_player),
            state |-> [p EXCEPT !.winner = p.current_player, !.game_over = TRUE]]
    ELSE IF AllFull(p.heights)
      THEN [success |-> TRUE,
            message |-> Msg("Draw", 0),
            state |-> p]
    ELSE [success |-> TRUE,
          message |-> Msg("Turn", 3 - p.current_player),
          state |-> [p EXCEPT !.current_player = 3 - p.current_player]]

\* the rest of make_move once the piece p.current_player is placed at
\* (row, col, layer): win, draw or the other player's turn (lines 185-198)
Conclude(p, row, col, layer) ==
    IF check_win(p.board, row, col, layer)
      THEN [success |-> TRUE,
            message |-> Msg("Win", p.current_player),
            state |-> [p EXCEPT !.winner = p.current_player, !.game_over = TRUE]]
    ELSE IF AllFull(p.heights)
      THEN [success |-> TRUE,
            message |-> Msg("Draw", 0),
            state |-> [p EXCEPT !.game_over = TRUE]]
    ELSE [success |-> TRUE,
          message |-> Msg("Turn", 3 - p.current_player),
          state |-> [p EXCEPT !.current_player = 3 - p.current_player]]

\* make_move whose range test has no lower bounds; a negative index then
\* counts from the end, as it does in a numpy array
make_move_NoLowerBound(s, row, col) ==
    IF ~(row < BoardSize /\ col < BoardSize)
      THEN [success |-> FALSE, message |-> Msg("OutOfRange", 0), state |-> s]
    ELSE LET r == row % BoardSize
             c == col % BoardSize
         IN  IF s.heights[r][c] >= BoardSize
               THEN [success |-> FALSE, message |-> Msg("ColumnFull", 0), state |-> s]
             ELSE Conclude(PlacePiece(s, r, c), r, c, s.heights[r][c])

\* make_move that takes a column for full one piece early
make_move_FullAt4(s, row, col) ==
    IF ~(0 <= row /\ row < BoardSize /\ 0 <= col /\ col < BoardSize)
      THEN [success |-> FALSE, message |-> Msg("OutOfRange", 0), state |-> s]
    ELSE IF s.heights[row][col] >= BoardSize - 1
      THEN [success |-> FALSE, message |-> Msg("ColumnFull", 0), state |-> s]
    ELSE Conclude(PlacePiece(s, row, col), row, col, s.heights[row][col])

make_move(s, row, col) ==
    IF ~(0 <= row /\ row < BoardSize /\ 0 <= col /\ col < BoardSize)
      THEN [success |-> FALSE, message |-> Msg("OutOfRange", 0), state |-> s]
    ELSE IF s.heights[row][col] >= BoardSize
      THEN [success |-> FALSE, message |-> Msg("ColumnFull", 0), state |-> s]
    ELSE Conclude(PlacePiece(s, row, col), row, col, s.heights[row][col])

-----------------------------------------------------------------------------
(* undo_move *)

\* no reactivation at all
Reactivate_Skip(s) == s

\* Reactivate that clears the flag and keeps the winner
Reactivate_KeepWinner(s) ==
    IF s.game_over THEN [s EXCEPT !.game_over = FALSE] ELSE s

\* "if the game is over, undoing makes it live again": lines 207-209
Reactivate(s) ==
    IF s.game_over THEN [s EXCEPT !.game_over = FALSE, !.winner = None] ELSE s

\* RemoveLast without the decrement of the column height
RemoveLast_KeepHeight(s) ==
    LET last_move == s.move_history[Len(s.move_history)]
        row == last_move[1]
        col == last_move[2]
        layer == last_move[3]
        player == last_move[4]
    IN  [s EXCEPT !.move_history = SubSeq(@, 1, Len(@) - 1),
                  !.board[row][col][layer] = 0,
                  !.current_player = player]

\* RemoveLast that does not give the turn back to the player of the move
RemoveLast_KeepTurn(s) ==
    LET last_move == s.move_history[Len(s.move_history)]
        row == last_move[1]
        col == last_move[2]
        layer == last_move[3]
    IN  [s EXCEPT !.move_history = SubSeq(@, 1, Len(@) - 1),
                  !.board[row][col][layer] = 0,
                  !.heights[row][col] = @ - 1]

\* pop the last move and restore board, heights and player: lines 212-220
RemoveLast(s) ==
    LET last_move == s.move_history[Len(s.move_history)]
        row == last_move[1]
        col == last_move[2]
        layer == last_move[3]
        player == last_move[4]
    IN  [s EXCEPT !.move_history = SubSeq(@, 1, Len(@) - 1),
                  !.board[row][col][layer] = 0,
                  !.heights[row][col] = @ - 1,
                  !.current_player = player]

\* undo_move that finds nothing to take back when one move is left
undo_move_KeepFirst(s) ==
    IF Len(s.move_history) <= 1
      THEN [message |-> Msg("NoHistory", 0), color |-> "orange", state |-> s]
    ELSE LET t == RemoveLast(Reactivate(s))
         IN  [message |-> Msg("Undone", t.current_player), color |-> "blue",
              state |-> t]

undo_move(s) ==
    IF s.move_history = <<>>
      THEN [message |-> Msg("NoHistory", 0), color |-> "orange", state |-> s]
    ELSE LET t == RemoveLast(Reactivate(s))
         IN  [message |-> Msg("Undone", t.current_player), color |-> "blue",
              state |-> t]

-----------------------------------------------------------------------------
(* process_move *)

\* process_move without the test of game_over
process_move_NoOverCheck(s, text) ==
    LET p == parse_input(text)
    IN  IF p.error # ""
          THEN [message |-> Msg(p.error, 0), color |-> "red", state |-> s]
        ELSE LET m == make_move(s, p.row, p.col)
             IN  IF ~m.success
                   THEN [message |-> m.message, color |-> "red", state |-> s]
                 ELSE [message |-> m.message,
                       color |-> IF m.state.game_over THEN "green" ELSE "black",
                       state |-> m.state]

process_move(s, text) ==
    IF s.game_over
      THEN [message |-> Msg("GameOver", 0), color |-> "red", state |-> s]
    ELSE LET p == parse_input(text)
         IN  IF p.error # ""
               THEN [message |-> Msg(p.error, 0), color |-> "red", state |-> s]
             ELSE LET m == make_move(s, p.row, p.col)
                  IN  IF ~m.success
                        THEN [message |-> m.message, color |-> "red", state |-> s]
                      ELSE [message |-> m.message,
                            color |-> IF m.state.game_over THEN "green" ELSE "black",
                            state |-> m.state]

-----------------------------------------------------------------------------
(* Inputs and bounds *)

MaxMoves == 8       \* longest history explored from a fresh game

\* what the players type in a game explored from the start: three columns of
\* row 1 (one of them in lower case) and one text for each parse error
BadTexts == { <<>>, <<"A", "1", "2">>, <<"F", "1">>, <<"A", "6">> }

FewTexts == { <<"A", "1">>, <<"B", "1">>, <<"c", "1">> } \cup BadTexts

\* the text that names column (row, col), as the page asks for it
TextOf(row, col) == <<UpperCase[col + 1], Digits[row + 2]>>

\* every column, and the texts with a parse error
AllTexts == { TextOf(row, col) : row \in Idx, col \in Idx } \cup BadTexts

MidDepth == 1       \* moves explored beyond a mid-game position
EndDepth == 5       \* moves of the drawn game left to play in an end game

\* Mid-game positions, each given by the columns (row, col) played to reach it
\* from a fresh game.  Between them the player to move has a winning drop
\* along each of the thirteen directions.
Openings ==
    <<
      <<
        <<3, 1>>, <<0, 3>>, <<3, 2>>, <<2, 4>>, <<0, 2>>, <<1, 2>>, <<0, 1>>, <<1, 1>>,
        <<4, 1>>, <<4, 2>>, <<2, 1>>, <<4, 3>>, <<2, 1>>, <<4, 1>>, <<3, 2>>, <<0, 1>>,
        <<2, 1>>, <<3, 3>>, <<1, 1>>, <<3, 4>>, <<4, 1>>, <<3, 2>>, <<4, 4>>, <<4, 4>>,
        <<4, 0>>, <<1, 0>>, <<2, 2>>, <<3, 0>>, <<1, 1>>, <<4, 2>>, <<2, 4>>, <<2, 3>>,
        <<4, 0>>, <<0, 1>>, <<4, 3>>, <<4, 4>>, <<2, 2>>, <<1, 1>>, <<3, 1>>, <<0, 2>>,
        <<1, 2>>, <<1, 2>>, <<3, 0>>, <<2, 0>>, <<4, 4>>, <<1, 4>>, <<4, 2>>, <<1, 4>> >>,
      <<
        <<3, 4>>, <<1, 3>>, <<3, 2>>, <<4, 4>>, <<3, 2>>, <<3, 1>>, <<2, 0>>, <<2, 0>>,
        <<1, 0>>, <<2, 4>>, <<1, 3>>, <<4, 3>>, <<3, 3>>, <<4, 0>>, <<0, 4>>, <<0, 0>>,
        <<3, 4>>, <<1, 1>>, <<3, 3>>, <<4, 4>>, <<1, 1>>, <<4, 0>>, <<1, 2>>, <<3, 0>>,
        <<4, 3>>, <<3, 0>>, <<2, 4>>, <<1, 2>>, <<3, 2>>, <<4, 3>>, <<1, 1>>, <<2, 4>>,
        <<0, 0>>, <<0, 4>>, <<4, 3>>, <<2, 1>>, <<3, 3>>, <<3, 0>>, <<2, 2>>, <<0, 0>>,
        <<3, 0>>, <<1, 3>>, <<3, 0>>, <<0, 4>>, <<1, 3>>, <<2, 2>>, <<4, 4>>, <<3, 4>> >>,
      <<
        <<1, 1>>, <<2, 1>>, <<2, 3>>, <<2, 0>>, <<3, 4>>, <<2, 2>>, <<1, 1>>, <<0, 3>>,
        <<2, 1>>, <<2, 4>>, <<0, 3>>, <<3, 4>>, <<1, 1>>, <<1, 1>>, <<0, 0>>, <<0, 4>>,
        <<4, 4>>, <<0, 3>>, <<0, 4>>, <<1, 1>>, <<2, 2>>, <<1, 2>>, <<2, 4>>, <<3, 4>>,
        <<2, 0>>, <<3, 1>>, <<1, 2>>, <<4, 3>>, <<1, 0>>, <<1, 0>>, <<3, 4>>, <<2, 1>>,
        <<3, 2>>, <<0, 1>>, <<1, 2>>, <<4, 1>>, <<1, 2>>, <<2, 3>>, <<2, 1>>, <<0, 1>>,
        <<0, 1>>, <<0, 0>>, <<3, 0>>, <<2, 0>>, <<4, 0>>, <<0, 0>>, <<0, 0>>, <<4, 1>> >>,
      <<
        <<1, 0>>, <<1, 3>>, <<2, 3>>, <<0, 4>>, <<0, 3>>, <<2, 1>>, <<1, 0>>, <<3, 0>>,
        <<0, 2>>, <<3, 2>>, <<3, 0>>, <<4, 0>>, <<1, 4>>, <<1, 2>>, <<0, 0>>, <<2, 0>>,
        <<1, 2>>, <<2, 0>>, <<0, 0>>, <<3, 0>>, <<4, 2>>, <<0, 2>>, <<1, 0>>, <<1, 1>>,
        <<1, 2>>, <<2, 0>>, <<2, 1>>, <<0, 1>>, <<1, 2>>, <<2, 3>>, <<2, 2>>, <<2, 3>>,
        <<4, 1>>, <<2, 3>>, <<2, 0>>, <<4, 3>>, <<3, 0>>, <<4, 4>>, <<2, 4>>, <<1, 1>>,
        <<3, 1>>, <<4, 2>>, <<4, 3>>, <<0, 0>>, <<3, 1>>, <<0, 3>>, <<4, 1>>, <<1, 1>> >>
    >>

\* A whole game that fills the board and ends in a draw.
DrawGame ==
    <<
      <<0, 0>>, <<1, 4>>, <<2, 0>>, <<1, 1>>, <<4, 3>>, <<3, 1>>, <<1, 3>>, <<3, 0>>,
      <<2, 2>>, <<1, 2>>, <<2, 3>>, <<3, 4>>, <<0, 3>>, <<4, 4>>, <<2, 4>>, <<0, 2>>,
      <<4, 1>>, <<2, 1>>, <<0, 1>>, <<0, 4>>, <<3, 2>>, <<4, 2>>, <<1, 0>>, <<3, 3>>,
      <<0, 3>>, <<4, 0>>, <<2, 2>>, <<0, 0>>, <<1, 4>>, <<4, 0>>, <<1, 1>>, <<1, 2>>,
      <<3, 3>>, <<4, 1>>, <<2, 4>>, <<0, 4>>, <<1, 3>>, <<4, 4>>, <<2, 1>>, <<0, 2>>,
      <<3, 4>>, <<2, 0>>, <<3, 0>>, <<0, 1>>, <<4, 2>>, <<4, 3>>, <<3, 1>>, <<1, 0>>,
      <<1, 3>>, <<2, 3>>, <<0, 4>>, <<3, 2>>, <<0, 2>>, <<4, 0>>, <<4, 2>>, <<0, 3>>,
      <<3, 0>>, <<0, 0>>, <<1, 1>>, <<1, 2>>, <<2, 1>>, <<2, 2>>, <<0, 1>>, <<3, 1>>,
      <<3, 2>>, <<4, 3>>, <<3, 3>>, <<2, 4>>, <<1, 0>>, <<4, 1>>, <<4, 4>>, <<2, 3>>,
      <<0, 4>>, <<1, 4>>, <<4, 2>>, <<3, 4>>, <<4, 0>>, <<2, 0>>, <<3, 3>>, <<3, 4>>,
      <<0, 0>>, <<1, 0>>, <<2, 3>>, <<4, 3>>, <<3, 0>>, <<0, 3>>, <<0, 1>>, <<3, 1>>,
      <<0, 2>>, <<2, 2>>, <<1, 4>>, <<2, 0>>, <<3, 2>>, <<4, 1>>, <<2, 1>>, <<1, 3>>,
      <<2, 4>>, <<1, 1>>, <<1, 2>>, <<2, 1>>, <<4, 4>>, <<1, 1>>, <<4, 3>>, <<0, 0>>,
      <<0, 1>>, <<3, 4>>, <<1, 2>>, <<4, 4>>, <<4, 1>>, <<3, 0>>, <<1, 4>>, <<2, 3>>,
      <<2, 4>>, <<4, 2>>, <<4, 0>>, <<1, 0>>, <<1, 3>>, <<0, 3>>, <<2, 0>>, <<3, 3>>,
      <<2, 2>>, <<3, 1>>, <<3, 2>>, <<0, 2>>, <<0, 4>> >>

MidLen == Len(Openings[1])
EndLen == Len(DrawGame) - EndDepth

-----------------------------------------------------------------------------
(* The program: one run of main per interaction with the page *)

Store(s) ==
    /\ board' = s.board
    /\ heights' = s.heights
    /\ current_player' = s.current_player
    /\ winner' = s.winner
    /\ game_over' = s.game_over
    /\ move_history' = s.move_history

\* the explored histories have lo .. hi moves; an operation that leaves the
\* history as it is is never cut off
InWindow(lo, hi, h) ==
    h = move_history \/ (lo <= Len(h) /\ Len(h) <= hi)

Init ==
    /\ board = reset_game.board
    /\ heights = reset_game.heights
    /\ current_player = reset_game.current_player
    /\ winner = reset_game.winner
    /\ game_over = reset_game.game_over
    /\ move_history = reset_game.move_history
    /\ message = reset_message
    /\ message_color = reset_message_color
    /\ move_disabled = FALSE

\* the move button, enabled on the page shown, is clicked with text in the box
ClickMove(text, lo, hi) ==
    /\ ~move_disabled
    /\ LET r == process_move(State, text)
       IN  /\ InWindow(lo, hi, r.state.move_history)
           /\ Store(r.state)
           /\ message' = r.message
           /\ message_color' = r.color
    /\ move_disabled' = game_over

ClickUndo(lo, hi) ==
    /\ LET r == undo_move(State)
       IN  /\ InWindow(lo, hi, r.state.move_history)
           /\ Store(r.state)
           /\ message' = r.message
           /\ message_color' = r.color
    /\ move_disabled' = game_over

\* a reset that puts back the initial fields and leaves the history list
ClickReset_KeepHistory ==
    /\ Store([reset_game EXCEPT !.move_history = move_history])
    /\ message' = reset_message
    /\ message_color' = reset_message_color
    /\ move_disabled' = game_over

ClickReset ==
    /\ Store(reset_game)
    /\ message' = reset_message
    /\ message_color' = reset_message_color
    /\ move_disabled' = game_over

\* any other interaction (the clear, slower and faster buttons, an edit of the
\* text box): the page is drawn again and the engine is not called
Rerun ==
    /\ move_disabled' = game_over
    /\ UNCHANGED <<board, heights, current_player, winner, game_over,
                   move_history, message, message_color>>

Next ==
    \/ \E text \in FewTexts : ClickMove(text, 0, MaxMoves)
    \/ ClickUndo(0, MaxMoves)
    \/ ClickReset
    \/ Rerun

Spec == Init /\ [][Next]_vars

-----------------------------------------------------------------------------
(* Games explored from a position the program is brought to by the given   *)
(* clicks of the move button                                               *)

\* The result of the last of the clicks on the move button, one for each of
\* cols in order, after result r.  The clicks are played half by half, and
\* the first half is computed (the bound y) before the second is looked at,
\* so that the evaluation nests no deeper than the logarithm of their number.
RECURSIVE Play(_, _)
Play(r, cols) ==
    IF cols = <<>> THEN r
    ELSE IF Len(cols) = 1
      THEN process_move(r.state, TextOf(cols[1][1], cols[1][2]))
    ELSE LET half == Len(cols) \div 2
         IN  CHOOSE last \in
                 { Play(y, SubSeq(cols, half + 1, Len(cols))) :
                     y \in { Play(r, SubSeq(cols, 1, half)) } } :
                 TRUE

InitAfter(cols) ==
    LET r == Play([message |-> reset_message, color |-> reset_message_color,
                   state |-> reset_game], cols)
    IN  /\ board = r.state.board
        /\ heights = r.state.heights
        /\ current_player = r.state.current_player
        /\ winner = r.state.winner
        /\ game_over = r.state.game_over
        /\ move_history = r.state.move_history
        /\ message = r.message
        /\ message_color = r.color
        /\ move_disabled = FALSE

InitMid == \E k \in 1 .. Len(Openings) : InitAfter(Openings[k])

NextMid ==
    \/ \E text \in AllTexts : ClickMove(text, MidLen, MidLen + MidDepth)
    \/ ClickUndo(MidLen, MidLen + MidDepth)
    \/ ClickReset
    \/ Rerun

SpecMid == InitMid /\ [][NextMid]_vars

InitEnd == InitAfter(SubSeq(DrawGame, 1, EndLen))

NextEnd ==
    \/ \E text \in AllTexts : ClickMove(text, EndLen, Len(DrawGame))
    \/ ClickUndo(EndLen, Len(DrawGame))
    \/ ClickReset
    \/ Rerun

SpecEnd == InitEnd /\ [][NextEnd]_vars

\* a click on the move button that puts a piece on the board
DropStep ==
    \E text \in AllTexts :
        /\ ClickMove(text, EndLen, Len(DrawGame))
        /\ Len(move_history') = Len(move_history) + 1

\* when such a click can be made: the button is enabled (line 307), the game
\* is not over (line 257) and some column is not full (line 174)
CanDrop ==
    /\ ~move_disabled
    /\ ~game_over
    /\ \E row \in Idx : \E col \in Idx : heights[row][col] < BoardSize

\* End games in which the players only drop pieces, and go on dropping while
\* they can: weak fairness of DropStep, with its enabling condition written
\* out as CanDrop.
DropFairness == []<>~CanDrop \/ []<><<DropStep>>_vars

SpecDrops == InitEnd /\ [][DropStep]_vars /\ DropFairness

-----------------------------------------------------------------------------
(* Properties *)

Players == {1, 2}

\* the last record of the history
LastMove(h) == h[Len(h)]

\* a step that places a piece: only a successful drop lengthens the history
Dropped == Len(move_history') = Len(move_history) + 1

\* a step that takes a move back
Undone == message'.kind = "Undone" /\ Len(move_history') = Len(move_history) - 1

\* C1. Gravity invariant: in every column the cells below the column's height
\* are occupied by a player and the cells from the height up are empty; the
\* height is in 0..5 and is the number of occupied cells of the column.
GravityInvariant ==
    \A r \in Idx : \A c \in Idx :
        /\ heights[r][c] \in 0 .. BoardSize
        /\ \A l \in Idx :
              IF l < heights[r][c] THEN board[r][c][l] \in Players
              ELSE board[r][c][l] = 0
        /\ heights[r][c] = Cardinality({ l \in Idx : board[r][c][l] # 0 })

\* a move was taken back from a column that still holds pieces of both players
GravityWitness ==
    /\ message.kind = "Undone"
    /\ \E r \in Idx : \E c \in Idx :
          /\ heights[r][c] >= 2
          /\ board[r][c][0] # board[r][c][1]

\* C2. History replay: writing each record's player into its cell and adding 1
\* to its column's height, in order from an empty board, gives the current
\* board and heights; each record's layer is its column's height at that time.
RECURSIVE Replay(_, _, _)
Replay(b, h, recs) ==
    IF recs = <<>> THEN [board |-> b, heights |-> h, layers_ok |-> TRUE]
    ELSE LET m == recs[1]
             rest == Replay([b EXCEPT ![m[1]][m[2]][m[3]] = m[4]],
                            [h EXCEPT ![m[1]][m[2]] = @ + 1],
                            Tail(recs))
         IN  [rest EXCEPT !.layers_ok = @ /\ m[3] = h[m[1]][m[2]]]

Empty3 == [r \in Idx |-> [c \in Idx |-> [l \in Idx |-> 0]]]
Empty2 == [r \in Idx |-> [c \in Idx |-> 0]]

HistoryReplay ==
    LET r == Replay(Empty3, Empty2, move_history)
    IN  /\ r.board = board
        /\ r.heights = heights
        /\ r.layers_ok

\* a history of at least four moves with a column played twice, after an undo
HistoryReplayWitness ==
    /\ Len(move_history) >= 4
    /\ message.kind = "Undone"
    /\ \E i \in 1 .. Len(move_history) : move_history[i][3] >= 1

\* C3. Undo is the inverse of a successful drop: the undo of the state a drop
\* leaves is the state the drop started from (board, heights, current player,
\* winner, game_over and history), whether the drop went on, won or drew.
DropUndoInverse == [][Dropped => undo_move(State').state = State]_vars

\* a drop has just drawn the game, and its undo makes the game live again
DropUndoWitness ==
    /\ message.kind = "Draw"
    /\ game_over
    /\ ~undo_move(State).state.game_over

\* C4. Terminal finality: while the game is over, a drop with any text (any
\* column, full or not, and the texts naming no column) returns the game-over
\* error and changes nothing; only an undo or a reset ends that.
GameOverResult(s) == [message |-> Msg("GameOver", 0), color |-> "red", state |-> s]

TerminalFinality ==
    /\ [](game_over => \A text \in AllTexts :
                            process_move(State, text) = GameOverResult(State))
    /\ [][game_over /\ message'.kind \notin {"Undone", "NewGame"}
             => /\ State' = State
                /\ message' # message => message' = Msg("GameOver", 0)]_vars
    /\ [][game_over /\ ~game_over' => message'.kind \in {"Undone", "NewGame"}]_vars

\* a drop was refused because the game is over, with a full column on the board
TerminalFinalityWitness ==
    /\ game_over
    /\ message = Msg("GameOver", 0)
    /\ \E r \in Idx : \E c \in Idx : heights[r][c] = BoardSize

\* C5. A drop wins exactly when the placed cell lies in a run of at least four
\* in-bounds cells of the mover along one of the thirteen directions, and
\* check_win agrees with that reference on every occupied cell.
LineAlong(b, row, col, layer, p, d) ==
    \E off \in 0 .. (WinCount - 1) :
        \A j \in 0 .. (WinCount - 1) :
            LET r == row + (j - off) * d[1]
                c == col + (j - off) * d[2]
                l == layer + (j - off) * d[3]
            IN  r \in Idx /\ c \in Idx /\ l \in Idx /\ b[r][c][l] = p

RunThrough(b, row, col, layer, p) ==
    \E k \in 1 .. Len(directions) : LineAlong(b, row, col, layer, p, directions[k])

WinIffLine ==
    /\ [](\A r \in Idx : \A c \in Idx : \A l \in Idx :
             board[r][c][l] # 0 =>
                 (check_win(board, r, c, l)
                    <=> RunThrough(board, r, c, l, board[r][c][l])))
    /\ [][Dropped =>
             LET m == LastMove(move_history')
             IN  /\ (game_over' /\ winner' = m[4])
                       <=> RunThrough(board', m[1], m[2], m[3], m[4])
                 /\ winner' \in {None, m[4]}]_vars

SpaceDiagonals == { <<1, 1, 1>>, <<1, 1, -1>>, <<1, -1, 1>>, <<1, -1, -1>> }

\* a drop has won along a space diagonal
WinIffLineWitness ==
    /\ game_over
    /\ winner \in Players
    /\ message.kind = "Win"
    /\ LET m == LastMove(move_history)
       IN  \E d \in SpaceDiagonals : LineAlong(board, m[1], m[2], m[3], winner, d)

\* C6. The point-centred check is enough: while the game is not over, a scan
\* of the whole board finds no four consecutive cells of one player along any
\* of the thirteen directions.
NoLine(b) ==
    \A r \in Idx : \A c \in Idx : \A l \in Idx : \A k \in 1 .. Len(directions) :
        ~ /\ b[r][c][l] # 0
          /\ \A j \in 1 .. (WinCount - 1) :
                LET r2 == r + j * directions[k][1]
                    c2 == c + j * directions[k][2]
                    l2 == l + j * directions[k][3]
                IN  /\ r2 \in Idx /\ c2 \in Idx /\ l2 \in Idx
                    /\ b[r2][c2][l2] = b[r][c][l]

NoUndetectedLine == ~game_over => NoLine(board)

\* a finished game was made live again by an undo, and a drop that would win
\* is open to the player to move
NoUndetectedLineWitness ==
    /\ ~game_over
    /\ move_disabled
    /\ message.kind = "Undone"
    /\ \E text \in AllTexts : process_move(State, text).state.winner \in Players

\* C7. Turn alternation: the mover of a successful drop is the player whose
\* turn it was; after the drop it is the other player's turn if the game goes
\* on, and still the mover's if the drop won or drew.
TurnAlternation ==
    [][Dropped =>
         LET m == LastMove(move_history')
         IN  /\ m[4] = current_player
             /\ IF game_over' THEN current_player' = m[4]
                ELSE current_player' = 3 - m[4]]_vars

\* a drop has won and the winner is still the current player
TurnAlternationWitness ==
    /\ message.kind = "Win"
    /\ move_history # <<>>
    /\ current_player = LastMove(move_history)[4]
    /\ winner = current_player

\* C8. A successful drop that completes no line of four draws the game exactly
\* when it leaves all 25 heights at 5 (all 125 cells occupied); then the
\* current player stays the mover, and otherwise the game goes on.
DrawIffFull ==
    [][Dropped =>
         LET m == LastMove(move_history')
             full == \A r \in Idx : \A c \in Idx : heights'[r][c] = BoardSize
         IN  ~RunThrough(board', m[1], m[2], m[3], m[4]) =>
                 /\ (game_over' /\ winner' = None) <=> full
                 /\ full => /\ current_player' = m[4]
                            /\ \A r \in Idx : \A c \in Idx : \A l \in Idx :
                                  board'[r][c][l] # 0
                 /\ ~full => ~game_over']_vars

\* the last of the 125 cells was filled and the game is drawn
DrawIffFullWitness ==
    /\ message.kind = "Draw"
    /\ Len(move_history) = BoardSize * BoardSize * BoardSize
    /\ winner = None
    /\ current_player = LastMove(move_history)[4]

\* C9. Undo of a finished game: it succeeds, the game is live again with no
\* winner, the cell of the last move is empty, the mover of that move is the
\* current player, and that player's drop on any column not full is accepted.
UndoReactivates ==
    game_over =>
        LET u == undo_move(State)
            m == LastMove(move_history)
        IN  /\ move_history # <<>>
            /\ u.message = Msg("Undone", m[4])
            /\ ~u.state.game_over
            /\ u.state.winner = None
            /\ u.state.board[m[1]][m[2]][m[3]] = 0
            /\ u.state.current_player = m[4]
            /\ \A row \in Idx : \A col \in Idx :
                  u.state.heights[row][col] < BoardSize =>
                      LET d == process_move(u.state, TextOf(row, col))
                      IN  /\ d.message.kind \in {"Win", "Draw", "Turn"}
                          /\ d.state.move_history =
                                Append(u.state.move_history,
                                       <<row, col, u.state.heights[row][col], m[4]>>)

\* the state an undo of a finished game leaves: the move button of the page
\* is still the disabled one of the finished game
UndoReactivatesWitness ==
    /\ move_disabled
    /\ ~game_over
    /\ winner = None
    /\ message.kind = "Undone"
    /\ message.player = current_player

\* C10. The scenario of alternating drops, Player1 on column (0, 0) and Player2
\* on column (0, 1), from a fresh game.
ScenMove(i) == <<0, (i - 1) % 2, (i - 1) \div 2, 2 - (i % 2)>>
ScenHistory(k) == [i \in 1 .. k |-> ScenMove(i)]
ScenText(i) == TextOf(0, (i - 1) % 2)

\* As claimed: each of the first seven drops goes on with the other player to
\* move, and the eighth drop wins for Player2.
ScenarioAsClaimed ==
    \A k \in 0 .. 7 :
        move_history = ScenHistory(k) =>
            LET d == process_move(State, ScenText(k + 1))
            IN  IF k < 7
                  THEN /\ d.message = Msg("Turn", 3 - ScenMove(k + 1)[4])
                       /\ ~d.state.game_over
                       /\ d.state.current_player = 3 - ScenMove(k + 1)[4]
                ELSE /\ d.message = Msg("Win", 2)
                     /\ d.state.winner = 2

\* As the program plays it: the first six drops go on with the other player to
\* move, the seventh (Player1's fourth piece in column (0, 0)) wins for
\* Player1, and the eighth drop is refused because the game is over.
ScenarioAsPlayed ==
    /\ \A k \in 0 .. 5 :
          move_history = ScenHistory(k) =>
              LET d == process_move(State, ScenText(k + 1))
              IN  /\ d.message = Msg("Turn", 3 - ScenMove(k + 1)[4])
                  /\ ~d.state.game_over
                  /\ d.state.current_player = 3 - ScenMove(k + 1)[4]
                  /\ d.state.move_history = ScenHistory(k + 1)
    /\ move_history = ScenHistory(6) =>
          LET d == process_move(State, ScenText(7))
          IN  /\ d.message = Msg("Win", 1)
              /\ d.state.game_over
              /\ d.state.winner = 1
              /\ d.state.current_player = 1
              /\ d.state.move_history = ScenHistory(7)
    /\ move_history = ScenHistory(7) =>
          /\ game_over
          /\ winner = 1
          /\ process_move(State, ScenText(8)) = GameOverResult(State)

\* the eighth drop of the scenario was tried and refused
ScenarioWitness ==
    /\ move_history = ScenHistory(7)
    /\ message = Msg("GameOver", 0)

\* C11. While the game is not over, a drop on a column of height 5 is refused
\* as full and changes nothing, and a drop on any column of height below 5 is
\* accepted.
ColumnFullResult(s) ==
    [message |-> Msg("ColumnFull", 0), color |-> "red", state |-> s]

ColumnFullRefused ==
    /\ [](~game_over =>
            \A row \in Idx : \A col \in Idx :
                LET d == process_move(State, TextOf(row, col))
                IN  IF heights[row][col] = BoardSize
                      THEN d = ColumnFullResult(State)
                    ELSE /\ d.message.kind \in {"Win", "Draw", "Turn"}
                         /\ Len(d.state.move_history) = Len(move_history) + 1)
    /\ [][message'.kind = "ColumnFull" => State' = State /\ ~game_over]_vars

\* a drop on a full column was refused while other columns are still open
ColumnFullWitness ==
    /\ ~game_over
    /\ message = Msg("ColumnFull", 0)
    /\ \E r \in Idx : \E c \in Idx : heights[r][c] = BoardSize
    /\ \E r \in Idx : \E c \in Idx : heights[r][c] < BoardSize

\* C12. A drop with a row or column outside 0..4 is refused by make_move itself
\* as out of range, whatever the heights and cells are, and changes nothing;
\* typed on the page, a text that names no column is refused as well.
OutCoords ==
    { rc \in (-2 .. BoardSize + 1) \X (-2 .. BoardSize + 1) :
        ~(rc[1] \in Idx /\ rc[2] \in Idx) }

OutOfRangeResult(s) ==
    [success |-> FALSE, message |-> Msg("OutOfRange", 0), state |-> s]

InvalidCoordinateRefused ==
    /\ [](\A rc \in OutCoords :
             make_move(State, rc[1], rc[2]) = OutOfRangeResult(State))
    /\ [](~game_over =>
             \A text \in { <<"F", "1">>, <<"A", "6">> } :
                 LET d == process_move(State, text)
                 IN  /\ d.state = State
                     /\ d.color = "red"
                     /\ d.message.kind \in {"BadColumn", "BadRow"})
    /\ [][message'.kind \in {"BadColumn", "BadRow", "OutOfRange"}
             => State' = State]_vars

\* in a game under way a text naming a sixth column was typed and refused,
\* and make_move refuses the coordinates (5, 0), (0, 5) and (-1, 0) there
InvalidCoordinateWitness ==
    /\ ~game_over
    /\ move_history # <<>>
    /\ message = Msg("BadColumn", 0)
    /\ \A rc \in { <<5, 0>>, <<0, 5>>, <<-1, 0>> } :
          ~make_move(State, rc[1], rc[2]).success

\* C13. Undo fails for want of history exactly when the history is empty, and
\* then changes nothing; otherwise it succeeds and takes back the most recent
\* move and no other.
NoHistoryResult(s) ==
    [message |-> Msg("NoHistory", 0), color |-> "orange", state |-> s]

UndoNoHistory ==
    /\ [](LET u == undo_move(State)
          IN  IF move_history = <<>> THEN u = NoHistoryResult(State)
              ELSE LET m == LastMove(move_history)
                   IN  /\ u.message = Msg("Undone", m[4])
                       /\ u.state.move_history =
                             SubSeq(move_history, 1, Len(move_history) - 1)
                       /\ u.state.board =
                             [board EXCEPT ![m[1]][m[2]][m[3]] = 0]
                       /\ board[m[1]][m[2]][m[3]] = m[4]
                       /\ u.state.heights =
                             [heights EXCEPT ![m[1]][m[2]] = heights[m[1]][m[2]] - 1])
    /\ [][message'.kind = "NoHistory" => State' = State /\ move_history = <<>>]_vars

\* undo was clicked with nothing to take back
UndoNoHistoryWitness ==
    /\ message = Msg("NoHistory", 0)
    /\ message_color = "orange"
    /\ move_history = <<>>

\* C14. Reset, from any state and also from a won or drawn game, leaves
\* exactly the fresh game: 125 empty cells, all heights 0, player 1 to move,
\* game in progress with no winner, empty history.
FreshGame ==
    /\ \A r \in Idx : \A c \in Idx : \A l \in Idx : board[r][c][l] = 0
    /\ \A r \in Idx : \A c \in Idx : heights[r][c] = 0
    /\ current_player = 1
    /\ winner = None
    /\ ~game_over
    /\ move_history = <<>>

ResetIsFresh == message = reset_message => FreshGame /\ message_color = "black"

\* reset was clicked on the page of a game that was over
ResetIsFreshWitness ==
    /\ message = reset_message
    /\ move_disabled
    /\ FreshGame

\* C15. The direction table has thirteen entries and holds exactly one of v
\* and -v for every non-zero v with components in -1 .. 1; so check_win finds
\* a line of four of one player whatever its orientation and whichever of its
\* four cells it is asked about.
AllVectors == { v \in (-1 .. 1) \X (-1 .. 1) \X (-1 .. 1) : v # <<0, 0, 0>> }
Neg(v) == <<0 - v[1], 0 - v[2], 0 - v[3]>>

\* the cell is the one at offset off of four cells of p in a row along v
LineAt(b, row, col, layer, p, v, off) ==
    \A j \in 0 .. (WinCount - 1) :
        LET r == row + (j - off) * v[1]
            c == col + (j - off) * v[2]
            l == layer + (j - off) * v[3]
        IN  r \in Idx /\ c \in Idx /\ l \in Idx /\ b[r][c][l] = p

OneOfEachPair ==
    /\ Len(directions) = 13
    /\ \A v \in AllVectors : InSeq(v, directions) # InSeq(Neg(v), directions)
    /\ \A k \in 1 .. Len(directions) : directions[k] \in AllVectors

DirectionSymmetry ==
    /\ OneOfEachPair
    /\ \A r \in Idx : \A c \in Idx : \A l \in Idx :
          board[r][c][l] # 0 =>
              \A v \in AllVectors : \A off \in 0 .. (WinCount - 1) :
                  LineAt(board, r, c, l, board[r][c][l], v, off)
                      => check_win(board, r, c, l)

\* a drop has won by filling an inner cell of a line whose orientation is in
\* the table with a negative component
DirectionSymmetryWitness ==
    /\ game_over
    /\ message.kind = "Win"
    /\ LET m == LastMove(move_history)
       IN  \E k \in 1 .. Len(directions) : \E off \in {1, 2} :
               /\ -1 \in {directions[k][2], directions[k][3]}
               /\ LineAt(board, m[1], m[2], m[3], m[4], directions[k], off)

\* C16. Win before draw: a drop that fills the last empty cell of the board
\* and completes a line of four of the mover ends the game as a win of the
\* mover, not as a draw.
WinBeforeDraw ==
    [][Dropped /\ AllFull(heights') =>
          LET m == LastMove(move_history')
          IN  (\E v \in AllVectors : \E off \in 0 .. (WinCount - 1) :
                   LineAt(board', m[1], m[2], m[3], m[4], v, off))
                => /\ game_over'
                   /\ winner' = m[4]
                   /\ message' = Msg("Win", m[4])
                   /\ message_color' = "green"]_vars

\* the 125th piece has won the game
WinBeforeDrawWitness ==
    /\ AllFull(heights)
    /\ Len(move_history) = BoardSize * BoardSize * BoardSize
    /\ winner = LastMove(move_history)[4]
    /\ message.kind = "Win"

\* C17. The players of the history alternate and player 1 is first, so player
\* 1 has as many pieces on the board as player 2 or one more; while the game
\* is in progress it is player 1's turn exactly when the history has an even
\* number of moves, undos included.
Pieces(p) ==
    Cardinality({ rcl \in Idx \X Idx \X Idx : board[rcl[1]][rcl[2]][rcl[3]] = p })

HistoryParity ==
    /\ \A i \in 1 .. Len(move_history) : move_history[i][4] = 2 - (i % 2)
    /\ Pieces(1) - Pieces(2) \in {0, 1}
    /\ Pieces(1) + Pieces(2) = Len(move_history)
    /\ ~game_over => (current_player = 1 <=> Len(move_history) % 2 = 0)
    /\ current_player \in Players

\* an undo has given the turn back to player 2 in the middle of a game
HistoryParityWitness ==
    /\ message = Msg("Undone", 2)
    /\ ~game_over
    /\ current_player = 2
    /\ Len(move_history) >= 3
    /\ Pieces(1) = Pieces(2) + 1

\* C18. The terminal flags agree with the board: a winner is recorded only
\* in a finished game; the winner is the player of the last move and the
\* current player, and the cell of the last move lies on a line of four of
\* the winner; a finished game without a winner has all 125 cells occupied,
\* 125 moves in the history and no line of four.
FlagsMatchBoard ==
    /\ winner \in Players \cup {None}
    /\ winner # None => game_over
    /\ winner # None =>
          /\ move_history # <<>>
          /\ LET m == LastMove(move_history)
             IN  /\ winner = m[4]
                 /\ winner = current_player
                 /\ board[m[1]][m[2]][m[3]] = winner
                 /\ \E v \in AllVectors : \E off \in 0 .. (WinCount - 1) :
                        LineAt(board, m[1], m[2], m[3], winner, v, off)
    /\ (game_over /\ winner = None) =>
          /\ \A r \in Idx : \A c \in Idx : \A l \in Idx : board[r][c][l] \in Players
          /\ Len(move_history) = BoardSize * BoardSize * BoardSize
          /\ NoLine(board)

\* player 2 has won with cells to spare
FlagsMatchBoardWitness ==
    /\ game_over
    /\ winner = 2
    /\ message = Msg("Win", 2)
    /\ ~AllFull(heights)

\* C19. The history is as long as the column heights add up to, and never
\* longer than 125; a game in progress always has a legal drop, and a run of
\* drops and nothing else ends in a win or a draw, at the 125th drop at the
\* latest.
SumHeights ==
    Cardinality({ rcl \in Idx \X Idx \X Idx : rcl[3] < heights[rcl[1]][rcl[2]] })

LegalDrop ==
    \E row \in Idx : \E col \in Idx :
        LET d == process_move(State, TextOf(row, col))
        IN  Len(d.state.move_history) = Len(move_history) + 1

====
